---------------------------- MODULE Spec2Model ----------------------------
(***************************************************************************)
(* The mortgage calculator page (src/client/pages/Index.tsx): the seven    *)
(* useState cells of the Index component, its change/click handlers, the   *)
(* validator validateForm and the calculation done by calculateMortgage.   *)
(*                                                                         *)
(* Raw input strings are sequences of one-character strings, so that       *)
(* Number(...) is modelled by parsing.  JavaScript numbers are modelled as *)
(* IEEE 754 binary64 values (NaN, the two infinities, and sign * m * 2^e   *)
(* with m an odd natural of at most 53 bits); every arithmetic operation   *)
(* computes the exact result and rounds it to nearest, ties to even, as    *)
(* the language requires.  Subnormal results do not occur for the inputs   *)
(* considered and are not modelled.                                        *)
(***************************************************************************)
EXTENDS Integers, Sequences, FiniteSets, TLC

VARIABLES loanAmount, interestRate, loanTerm, mortgageType,
          result, errors, submitted

vars == <<loanAmount, interestRate, loanTerm, mortgageType,
          result, errors, submitted>>

-----------------------------------------------------------------------------
(* Natural numbers of any size: little-endian sequences of limbs below     *)
(* Base with no leading zero limb (the empty sequence is 0).  They carry   *)
(* the exact intermediate results from which IEEE 754 results are rounded. *)

Base == 2^15

LimbBits == CHOOSE b \in 1..30 : 2^b = Base

Limb(a, i) == IF i <= Len(a) THEN a[i] ELSE 0

RECURSIVE BNorm(_)
BNorm(a) ==
    IF a # <<>> /\ a[Len(a)] = 0 THEN BNorm(SubSeq(a, 1, Len(a) - 1)) ELSE a

RECURSIVE BFromInt(_)
BFromInt(i) == IF i = 0 THEN <<>> ELSE <<i % Base>> \o BFromInt(i \div Base)

RECURSIVE BToInt(_)
BToInt(a) == IF a = <<>> THEN 0 ELSE a[1] + Base * BToInt(Tail(a))

RECURSIVE BCmpAt(_, _, _)
BCmpAt(a, b, i) ==
    IF i = 0 THEN 0
    ELSE IF a[i] < b[i] THEN -1
    ELSE IF a[i] > b[i] THEN 1
    ELSE BCmpAt(a, b, i - 1)

(* -1, 0 or 1 as a < b, a = b or a > b *)
BCmp(a, b) ==
    IF Len(a) < Len(b) THEN -1
    ELSE IF Len(a) > Len(b) THEN 1
    ELSE BCmpAt(a, b, Len(a))

RECURSIVE BAddFrom(_, _, _, _)
BAddFrom(a, b, i, c) ==
    IF i > Len(a) /\ i > Len(b) THEN (IF c = 0 THEN <<>> ELSE <<c>>)
    ELSE LET t == Limb(a, i) + Limb(b, i) + c
         IN  <<t % Base>> \o BAddFrom(a, b, i + 1, t \div Base)

BAdd(a, b) == BAddFrom(a, b, 1, 0)

RECURSIVE BSubFrom(_, _, _, _)
BSubFrom(a, b, i, c) ==
    IF i > Len(a) THEN <<>>
    ELSE LET t == a[i] - Limb(b, i) - c
         IN  <<t % Base>> \o BSubFrom(a, b, i + 1, IF t < 0 THEN 1 ELSE 0)

(* a - b for a >= b *)
BSub(a, b) == BNorm(BSubFrom(a, b, 1, 0))

RECURSIVE BMulSmallFrom(_, _, _, _)
BMulSmallFrom(a, k, i, c) ==
    IF i > Len(a) THEN (IF c = 0 THEN <<>> ELSE <<c>>)
    ELSE LET t == a[i] * k + c
         IN  <<t % Base>> \o BMulSmallFrom(a, k, i + 1, t \div Base)

(* a * k for 0 <= k <= Base *)
BMulSmall(a, k) == IF k = 0 THEN <<>> ELSE BMulSmallFrom(a, k, 1, 0)

BShlLimbs(a, j) == IF a = <<>> THEN <<>> ELSE [i \in 1..j |-> 0] \o a

RECURSIVE BMulFrom(_, _, _)
BMulFrom(a, b, j) ==
    IF j > Len(b) THEN <<>>
    ELSE BAdd(BShlLimbs(BMulSmall(a, b[j]), j - 1), BMulFrom(a, b, j + 1))

BMul(a, b) == IF a = <<>> \/ b = <<>> THEN <<>> ELSE BMulFrom(a, b, 1)

(* limb i of a * 2^s for s < LimbBits *)
BShlLimb(a, s, i) ==
    ((Limb(a, i) * 2^s) % Base)
       + (IF i = 1 THEN 0 ELSE (a[i - 1] * 2^s) \div Base)

BShlBy(a, s, j) ==
    [i \in 1..j |-> 0] \o BNorm([i \in 1..(Len(a) + 1) |-> BShlLimb(a, s, i)])

(* a * 2^bits *)
BShl(a, bits) ==
    IF a = <<>> THEN <<>> ELSE BShlBy(a, bits % LimbBits, bits \div LimbBits)

(* limb i of floor(a / 2^s) for s < LimbBits *)
BShrLimb(a, s, i) ==
    (a[i] \div 2^s) + (Limb(a, i + 1) % 2^s) * 2^(LimbBits - s)

BShrBy(a, s, j) == BNorm([i \in 1..(Len(a) - j) |-> BShrLimb(a, s, i + j)])

(* floor(a / 2^bits) *)
BShr(a, bits) ==
    IF bits \div LimbBits >= Len(a) THEN <<>>
    ELSE BShrBy(a, bits % LimbBits, bits \div LimbBits)

(* one step of short division: the quotient and remainder hi of the limbs *)
(* above, and the next limb                                               *)
BDivSmallStep(hi, limb, k) ==
    [q |-> <<(hi.r * Base + limb) \div k>> \o hi.q,
     r |-> (hi.r * Base + limb) % k]

RECURSIVE BDivSmallAt(_, _, _)
BDivSmallAt(a, k, i) ==
    IF i > Len(a) THEN [q |-> <<>>, r |-> 0]
    ELSE BDivSmallStep(BDivSmallAt(a, k, i + 1), a[i], k)

BDivSmallNorm(d) == [q |-> BNorm(d.q), r |-> d.r]

(* quotient (a bignat) and remainder (an integer) of a by 0 < k < Base *)
BDivSmall(a, k) == BDivSmallNorm(BDivSmallAt(a, k, 1))

(* bit i of a, bit 0 the lowest *)
BBit(a, i) == (Limb(a, (i \div LimbBits) + 1) \div 2^(i % LimbBits)) % 2

(* a mod 2^bits # 0 *)
BLowBitsSet(a, bits) ==
    \/ \E i \in 1..(bits \div LimbBits) : Limb(a, i) # 0
    \/ Limb(a, (bits \div LimbBits) + 1) % 2^(bits % LimbBits) # 0

(* the number of bits of 0 <= i < Base *)
IntBitLen(i) == CHOOSE n \in 0..LimbBits : 2^n > i /\ (n = 0 \/ 2^(n - 1) <= i)

BBitLen(a) ==
    IF a = <<>> THEN 0 ELSE LimbBits * (Len(a) - 1) + IntBitLen(a[Len(a)])

(* the number of low zero bits of 0 < i < Base *)
IntTrailingZeros(i) ==
    CHOOSE n \in 0..(LimbBits - 1) : i % 2^n = 0 /\ i % 2^(n + 1) # 0

BTrailingZerosFrom(a, j) == LimbBits * (j - 1) + IntTrailingZeros(a[j])

(* the number of low zero bits of a # 0 *)
BTrailingZeros(a) ==
    BTrailingZerosFrom(a, CHOOSE j \in 1..Len(a) :
                             a[j] # 0 /\ \A i \in 1..(j - 1) : a[i] = 0)

(* the largest d in lo..hi with b * d <= cur, where b * lo <= cur *)
BQuotDigitIn(cur, b, lo, hi) ==
    CHOOSE d \in lo..hi :
       /\ BCmp(BMulSmall(b, d), cur) <= 0
       /\ d < hi => BCmp(BMulSmall(b, d + 1), cur) > 0

(* the same for cur < b * Base, from the limbs of cur that stand over the *)
(* top limb of b: top / (b's top limb + 1) <= d <= top / b's top limb     *)
BQuotDigitTop(cur, b, top, btop) ==
    BQuotDigitIn(cur, b, top \div (btop + 1),
                 IF top \div btop < Base THEN top \div btop ELSE Base - 1)

BQuotDigit(cur, b) ==
    BQuotDigitTop(cur, b, Limb(cur, Len(b) + 1) * Base + Limb(cur, Len(b)),
                  b[Len(b)])

(* one step of long division: the quotient so far hq, the running         *)
(* remainder cur, and the next quotient digit d                            *)
BDivDigit(hq, cur, b, d) ==
    [q |-> <<d>> \o hq, r |-> BSub(cur, BMulSmall(b, d))]

BDivCur(hq, cur, b) == BDivDigit(hq, cur, b, BQuotDigit(cur, b))

BDivWith(hi, limb, b) ==
    IF hi.r = <<>> /\ limb = 0 THEN [q |-> <<0>> \o hi.q, r |-> <<>>]
    ELSE BDivCur(hi.q, <<limb>> \o hi.r, b)

(* long division of the limbs i .. Len(a) of a by b, highest limb first;  *)
(* fewer limbs than b has are a remainder with no quotient                *)
RECURSIVE BDivLimbs(_, _, _)
BDivLimbs(a, b, i) ==
    IF i > Len(a) - (Len(b) - 1) THEN [q |-> <<>>, r |-> SubSeq(a, i, Len(a))]
    ELSE BDivWith(BDivLimbs(a, b, i + 1), a[i], b)

BDivModSmall(d) == [q |-> d.q, r |-> BFromInt(d.r)]

(* the quotient of the operands scaled by 2^s, and the remainder scaled   *)
(* back                                                                    *)
BDivModLimbs(d, s) == [q |-> BNorm(d.q), r |-> BShr(d.r, s)]

BDivModScaled(a, b, s) == BDivModLimbs(BDivLimbs(BShl(a, s), BShl(b, s), 1), s)

(* quotient and remainder (both bignats) of a by b # 0; a longer divisor  *)
(* is first scaled to fill its top limb, which keeps the digit estimate   *)
(* within 3 of the digit                                                   *)
BDivMod(a, b) ==
    IF Len(b) = 1 THEN BDivModSmall(BDivSmall(a, b[1]))
    ELSE BDivModScaled(a, b, LimbBits - IntBitLen(b[Len(b)]))

-----------------------------------------------------------------------------
(* JavaScript number values: IEEE 754 binary64.                            *)
(* k = "fin": the value s * m * 2^e with m a bignat below 2^53, odd unless *)
(* the value is 0 (then m = <<>>, e = 0, s = 1; -0 is identified with 0);  *)
(* k = "inf": s * Infinity; k = "nan": NaN.  Every arithmetic operation    *)
(* rounds its exact result to the nearest such value, ties to even.        *)
(* Subnormal results are not modelled: the values handled stay far above   *)
(* 2^-1022.                                                                *)

Abs(x) == IF x < 0 THEN -x ELSE x

NaN == [k |-> "nan", s |-> 1, m |-> <<>>, e |-> 0]

Inf(s) == [k |-> "inf", s |-> s, m |-> <<>>, e |-> 0]

Zero == [k |-> "fin", s |-> 1, m |-> <<>>, e |-> 0]

Stripped(s, M, E, tz) == [k |-> "fin", s |-> s, m |-> BShr(M, tz), e |-> E + tz]

(* s * M * 2^E for a bignat M of at most 53 bits *)
Canon(s, M, E) ==
    IF M = <<>> THEN Zero
    ELSE IF BBitLen(M) + E > 1024 THEN Inf(s)
    ELSE Stripped(s, M, E, BTrailingZeros(M))

(* q rounded to nearest, ties to even: half is the first bit dropped, low  *)
(* says that something below it was dropped                                *)
RoundedUp(q, half, low) ==
    IF half /\ (low \/ BBit(q, 0) = 1) THEN BAdd(q, <<1>>) ELSE q

RoundAt(s, M, E, sticky, sh) ==
    IF sh <= 0 THEN Canon(s, M, E)
    ELSE Canon(s,
               RoundedUp(BShr(M, sh), BBit(M, sh - 1) = 1,
                         sticky \/ BLowBitsSet(M, sh - 1)),
               E + sh)

(* The double nearest to s * (M + f) * 2^E, ties to even, where 0 < f < 1  *)
(* if sticky and f = 0 otherwise; a sticky M has more than 53 bits.        *)
RoundToDouble(s, M, E, sticky) == RoundAt(s, M, E, sticky, BBitLen(M) - 53)

(* the double of a small integer *)
Num(i) == Canon(IF i < 0 THEN -1 ELSE 1, BFromInt(Abs(i)), 0)

isNaN(x) == x.k = "nan"

IsFinite(x) == x.k = "fin"

IsZero(x) == x.k = "fin" /\ x.m = <<>>

Mul(x, y) ==
    IF isNaN(x) \/ isNaN(y) THEN NaN
    ELSE IF x.k = "inf" \/ y.k = "inf"
         THEN IF IsZero(x) \/ IsZero(y) THEN NaN ELSE Inf(x.s * y.s)
    ELSE RoundToDouble(x.s * y.s, BMul(x.m, y.m), x.e + y.e, FALSE)

(* the quotient d.q with remainder d.r, scaled by 2^E, as a double *)
DivQuotient(s, d, E) == RoundToDouble(s, d.q, E, d.r # <<>>)

DivShifted(x, y, sh) ==
    DivQuotient(x.s * y.s, BDivMod(BShl(x.m, sh), y.m), x.e - y.e - sh)

Div(x, y) ==
    IF isNaN(x) \/ isNaN(y) THEN NaN
    ELSE IF y.k = "inf"
         THEN IF x.k = "inf" THEN NaN ELSE Zero
    ELSE IF IsZero(y)
         THEN IF IsZero(x) THEN NaN ELSE Inf(x.s * y.s)
    ELSE IF x.k = "inf" THEN Inf(x.s * y.s)
    ELSE IF IsZero(x) THEN Zero
    ELSE DivShifted(x, y, 56 + BBitLen(y.m) - BBitLen(x.m))

Neg(x) == IF isNaN(x) \/ IsZero(x) THEN x ELSE [x EXCEPT !.s = -x.s]

MinExp(x, y) == IF x.e < y.e THEN x.e ELSE y.e

(* sx * X + sy * Y for sx # sy, where c compares X with Y *)
SubMagnitudes(sx, X, sy, Y, E, c) ==
    IF c = 0 THEN Zero
    ELSE RoundToDouble(IF c > 0 THEN sx ELSE sy,
                       IF c > 0 THEN BSub(X, Y) ELSE BSub(Y, X), E, FALSE)

AddMagnitudes(sx, X, sy, Y, E) ==
    IF sx = sy THEN RoundToDouble(sx, BAdd(X, Y), E, FALSE)
    ELSE SubMagnitudes(sx, X, sy, Y, E, BCmp(X, Y))

AddAligned(x, y, E) ==
    AddMagnitudes(x.s, BShl(x.m, x.e - E), y.s, BShl(y.m, y.e - E), E)

Add(x, y) ==
    IF isNaN(x) \/ isNaN(y) THEN NaN
    ELSE IF x.k = "inf" /\ y.k = "inf"
         THEN IF x.s = y.s THEN x ELSE NaN
    ELSE IF x.k = "inf" \/ IsZero(y) THEN x
    ELSE IF y.k = "inf" \/ IsZero(x) THEN y
    ELSE AddAligned(x, y, MinExp(x, y))

Sub(x, y) == Add(x, Neg(y))

LtBySign(s, c) == IF s = 1 THEN c < 0 ELSE c > 0

LtAligned(x, y, E) ==
    LtBySign(x.s, BCmp(BShl(x.m, x.e - E), BShl(y.m, y.e - E)))

(* x < y; false when either side is NaN. *)
Lt(x, y) ==
    IF isNaN(x) \/ isNaN(y) THEN FALSE
    ELSE IF x.k = "inf" THEN x.s = -1 /\ ~(y.k = "inf" /\ y.s = -1)
    ELSE IF y.k = "inf" THEN y.s = 1
    ELSE IF IsZero(x) THEN ~IsZero(y) /\ y.s = 1
    ELSE IF IsZero(y) THEN x.s = -1
    ELSE IF x.s # y.s THEN x.s = -1
    ELSE LtAligned(x, y, MinExp(x, y))

(* x === y on numbers; NaN equals nothing. *)
Eq(x, y) == ~isNaN(x) /\ ~isNaN(y) /\ x = y

Le(x, y) == Lt(x, y) \/ Eq(x, y)

(* Number.isInteger(x) *)
IsInteger(x) == IsFinite(x) /\ x.e >= 0

BSquare(h) == BMul(h, h)

BPowStep(sq, a, i) == IF i % 2 = 1 THEN BMul(sq, a) ELSE sq

RECURSIVE BPow(_, _)
BPow(a, i) ==
    IF i = 0 THEN <<1>> ELSE BPowStep(BSquare(BPow(a, i \div 2)), a, i)

PowInt(x, i) ==
    RoundToDouble(IF i % 2 = 0 THEN 1 ELSE x.s, BPow(x.m, i), x.e * i, FALSE)

(* Math.pow(x, y) for finite x and a finite integer y >= 0 (the code's     *)
(* exponent is years * 12 with years a validated integer): the exact power *)
(* rounded once.  Other arguments are left undefined.                      *)
Pow(x, y) ==
    CASE IsFinite(x) /\ IsInteger(y) /\ y.s = 1 ->
         PowInt(x, BToInt(BShl(y.m, y.e)))

RoundedInteger(s, q, half, low) ==
    Canon(s, IF half /\ (s = 1 \/ low) THEN BAdd(q, <<1>>) ELSE q, 0)

(* Math.round(x): the integer nearest to x, ties towards +Infinity. *)
MathRound(x) ==
    IF ~IsFinite(x) \/ x.e >= 0 THEN x
    ELSE RoundedInteger(x.s, BShr(x.m, -x.e), BBit(x.m, -x.e - 1) = 1,
                        BLowBitsSet(x.m, -x.e - 1))

-----------------------------------------------------------------------------
(* Number(s) for a string s over Chars (StringToNumber): white space is    *)
(* trimmed, the empty string is 0, then an optional sign and a decimal     *)
(* literal  digits [. digits]  or  . digits ; anything else is NaN.  The   *)
(* value is the double nearest to the decimal written.                     *)

Digits == <<"0", "1", "2", "3", "4", "5", "6", "7", "8", "9">>

DigitChars == {Digits[i] : i \in 1..10}

Chars == DigitChars \cup {".", "-", "+", " "}

DigitVal(c) == (CHOOSE i \in 1..10 : Digits[i] = c) - 1

RECURSIVE TrimLeft(_)
TrimLeft(s) ==
    IF s # <<>> /\ Head(s) = " " THEN TrimLeft(Tail(s)) ELSE s

RECURSIVE TrimRight(_)
TrimRight(s) ==
    IF s # <<>> /\ s[Len(s)] = " "
    THEN TrimRight(SubSeq(s, 1, Len(s) - 1)) ELSE s

Trim(s) == TrimRight(TrimLeft(s))

AllDigits(s) == \A i \in 1..Len(s) : s[i] \in DigitChars

(* the natural number written by the digit string s *)
RECURSIVE DigitsValue(_)
DigitsValue(s) ==
    IF s = <<>> THEN <<>>
    ELSE BAdd(BMulSmall(DigitsValue(SubSeq(s, 1, Len(s) - 1)), 10),
              BFromInt(DigitVal(s[Len(s)])))

RECURSIVE BPow10(_)
BPow10(i) == IF i = 0 THEN <<1>> ELSE BMulSmall(BPow10(i - 1), 10)

(* the double nearest to D / 10^f *)
DecimalQuotient(D, T, sh) == DivQuotient(1, BDivMod(BShl(D, sh), T), -sh)

DecimalToDouble(D, f) ==
    IF D = <<>> THEN Zero
    ELSE IF f = 0 THEN RoundToDouble(1, D, 0, FALSE)
    ELSE DecimalQuotient(D, BPow10(f), 56 + BBitLen(BPow10(f)))

(* the decimal literal with integer part ip and fraction part fp, or NaN *)
Literal(ip, fp) ==
    IF AllDigits(ip) /\ AllDigits(fp) /\ Len(ip) + Len(fp) > 0
    THEN DecimalToDouble(DigitsValue(ip \o fp), Len(fp))
    ELSE NaN

(* the position of the first "." of u, or Len(u) + 1 *)
DotAt(u) ==
    CHOOSE i \in 1..(Len(u) + 1) :
        /\ i = Len(u) + 1 \/ u[i] = "."
        /\ \A j \in 1..(i - 1) : u[j] # "."

SplitLiteral(u, p) ==
    Literal(SubSeq(u, 1, p - 1),
            IF p >= Len(u) THEN <<>> ELSE SubSeq(u, p + 1, Len(u)))

(* The unsigned decimal literal u, or NaN. *)
UnsignedLiteral(u) == SplitLiteral(u, DotAt(u))

ApplySign(negative, x) == IF negative THEN Neg(x) ELSE x

SignedLiteral(t) ==
    IF t = <<>> THEN Zero
    ELSE ApplySign(Head(t) = "-",
                   UnsignedLiteral(IF Head(t) \in {"-", "+"} THEN Tail(t) ELSE t))

Number(s) == SignedLiteral(Trim(s))

-----------------------------------------------------------------------------
(* validateForm: the error mapping it builds and its boolean result.       *)

Fields == {"loanAmount", "interestRate", "loanTerm"}

NoMessage == ""

(* the message for the loan amount field holding raw, value = Number(raw) *)
loanAmountMessage(raw, value) ==
    IF raw = <<>> THEN "Loan amount is required"
    ELSE IF isNaN(value) \/ Le(value, Num(0))
         THEN "Please enter a valid loan amount"
    ELSE NoMessage

loanAmountError == loanAmountMessage(loanAmount, Number(loanAmount))

interestRateMessage(raw, value) ==
    IF raw = <<>> THEN "Interest rate is required"
    ELSE IF isNaN(value) \/ Lt(value, Num(0))
         THEN "Please enter a valid interest rate"
    ELSE NoMessage

interestRateError == interestRateMessage(interestRate, Number(interestRate))

loanTermMessage(raw, value) ==
    IF raw = <<>> THEN "Loan term is required"
    ELSE IF isNaN(value) \/ Le(value, Num(0)) \/ ~IsInteger(value)
         THEN "Please enter a valid loan term in years"
    ELSE NoMessage

loanTermError == loanTermMessage(loanTerm, Number(loanTerm))

FieldError(f) ==
    CASE f = "loanAmount"   -> loanAmountError
      [] f = "interestRate" -> interestRateError
      [] f = "loanTerm"     -> loanTermError

(* The FormErrors object holding the messages that were set. *)
FormErrors(messages) ==
    [f \in {g \in DOMAIN messages : messages[g] # NoMessage} |-> messages[f]]

(* the order in which validateForm examines the fields *)
FieldOrder == <<"loanAmount", "interestRate", "loanTerm">>

(* the messages up to and including the first one set *)
FirstErrorOnly(messages) ==
    [f \in DOMAIN messages |->
        IF \E i, j \in 1..Len(FieldOrder) :
              /\ i < j
              /\ FieldOrder[j] = f
              /\ messages[FieldOrder[i]] # NoMessage
        THEN NoMessage ELSE messages[f]]

(* a validator that stops at the first field in error *)
newErrors_FirstErrorOnly ==
    FormErrors(FirstErrorOnly([f \in Fields |-> FieldError(f)]))

(* newErrors as passed to setErrors *)
newErrors == FormErrors([f \in Fields |-> FieldError(f)])

(* the value validateForm returns: Object.keys(newErrors).length === 0 *)
validateForm == Cardinality(DOMAIN newErrors) = 0

-----------------------------------------------------------------------------
(* The calculation of calculateMortgage (lines 75-106) on the converted    *)
(* inputs; the value handed to setResult.                                  *)

MortgageTypes == {"repayment", "interest-only"}

(* annualRate / 100 / 12 *)
monthlyRate(annualRate) == Div(Div(annualRate, Num(100)), Num(12))

(* years * 12 *)
numberOfPayments(years) == Mul(years, Num(12))

(* the annuity formula, growth = Math.pow(1 + monthlyRate, numberOfPayments) *)
annuity(principal, r, growth) ==
    Div(Mul(principal, Mul(r, growth)), Sub(growth, Num(1)))

(* the repayment formula without its zero-rate case *)
monthlyPayment_NoZeroRateBranch(principal, r, n, type) ==
    IF type = "repayment"
    THEN annuity(principal, r, Pow(Add(Num(1), r), n))
    ELSE Mul(principal, r)

(* the zero-rate quotient with its operands exchanged *)
monthlyPayment_SwappedQuotient(principal, r, n, type) ==
    IF type = "repayment"
    THEN IF Eq(r, Num(0))
         THEN Div(n, principal)
         ELSE annuity(principal, r, Pow(Add(Num(1), r), n))
    ELSE Mul(principal, r)

(* monthlyPayment before rounding; r is monthlyRate, n numberOfPayments *)
monthlyPayment(principal, r, n, type) ==
    IF type = "repayment"
    THEN IF Eq(r, Num(0))
         THEN Div(principal, n)
         ELSE annuity(principal, r, Pow(Add(Num(1), r), n))
    ELSE Mul(principal, r)

(* an interest-only total that leaves the principal out *)
totalPayment_InterestOnlyWithoutPrincipal(principal, mp, n, type) ==
    Mul(mp, n)

(* totalPayment before rounding; mp is the unrounded monthlyPayment *)
totalPayment(principal, mp, n, type) ==
    IF type = "repayment" THEN Mul(mp, n) ELSE Add(principal, Mul(mp, n))

(* Math.round(x * 100) / 100 *)
Round2(x) == Div(MathRound(Mul(x, Num(100))), Num(100))

(* repayment interest that is not net of the principal *)
totalInterest_RepaymentNotNet(principal, mp, tp, n, type) ==
    IF type = "repayment" THEN tp ELSE Mul(mp, n)

(* interest-only interest from the rounded monthly payment *)
totalInterest_FromRoundedPayment(principal, mp, tp, n, type) ==
    IF type = "repayment" THEN Sub(tp, principal) ELSE Mul(Round2(mp), n)

(* totalInterest before rounding; tp is the unrounded totalPayment *)
totalInterest(principal, mp, tp, n, type) ==
    IF type = "repayment" THEN Sub(tp, principal) ELSE Mul(mp, n)

(* the object handed to setResult *)
roundedResult(mp, tp, ti) ==
    [monthlyPayment |-> Round2(mp),
     totalPayment   |-> Round2(tp),
     totalInterest  |-> Round2(ti)]

(* the calculation once totalPayment tp is known *)
calculateFromTotal(principal, mp, tp, n, type) ==
    roundedResult(mp, tp, totalInterest(principal, mp, tp, n, type))

(* the calculation once monthlyPayment mp is known *)
calculateFromPayment(principal, mp, n, type) ==
    calculateFromTotal(principal, mp, totalPayment(principal, mp, n, type), n, type)

(* the calculation once monthlyRate r and numberOfPayments n are known *)
calculateFromRate(principal, r, n, type) ==
    calculateFromPayment(principal, monthlyPayment(principal, r, n, type), n, type)

calculate(principal, annualRate, years, type) ==
    calculateFromRate(principal, monthlyRate(annualRate),
                      numberOfPayments(years), type)

-----------------------------------------------------------------------------
(* The page: state after construction and one action per handler.          *)

null == <<>>

(* the empty FormErrors object {} *)
noErrors == [f \in {} |-> NoMessage]

Init ==
    /\ loanAmount = <<>>
    /\ interestRate = <<>>
    /\ loanTerm = <<>>
    /\ mortgageType = "repayment"
    /\ result = null
    /\ errors = noErrors
    /\ submitted = FALSE

(* Values typed into the three number inputs. *)
LoanAmountInputs ==
    { <<>>, <<"-", "1">>, <<"1">>, <<"2", "5", "0", "0", "0", "0">> }

InterestRateInputs ==
    { <<>>, <<"0">>, <<"1", "2", "0", "0">> }

LoanTermInputs ==
    { <<>>, <<"1">>, <<"2", ".", "5">> }

setLoanAmount(v) ==
    /\ loanAmount' = v
    /\ UNCHANGED <<interestRate, loanTerm, mortgageType, result, errors, submitted>>

setInterestRate(v) ==
    /\ interestRate' = v
    /\ UNCHANGED <<loanAmount, loanTerm, mortgageType, result, errors, submitted>>

setLoanTerm(v) ==
    /\ loanTerm' = v
    /\ UNCHANGED <<loanAmount, interestRate, mortgageType, result, errors, submitted>>

(* a type selection that also clears the stored result *)
setMortgageType_ClearsResult(t) ==
    /\ mortgageType' = t
    /\ result' = null
    /\ UNCHANGED <<loanAmount, interestRate, loanTerm, errors, submitted>>

setMortgageType(t) ==
    /\ mortgageType' = t
    /\ UNCHANGED <<loanAmount, interestRate, loanTerm, result, errors, submitted>>

(* calculateMortgage without the early return on failed validation *)
calculateMortgage_NoEarlyReturn ==
    /\ UNCHANGED <<loanAmount, interestRate, loanTerm, mortgageType>>
    /\ submitted' = TRUE
    /\ errors' = newErrors
    /\ result' = << calculate(Number(loanAmount), Number(interestRate),
                              Number(loanTerm), mortgageType) >>

(* calculateMortgage clearing the result when validation fails *)
calculateMortgage_ClearsResultOnFailure ==
    /\ UNCHANGED <<loanAmount, interestRate, loanTerm, mortgageType>>
    /\ submitted' = TRUE
    /\ errors' = newErrors
    /\ result' = IF Cardinality(DOMAIN errors') # 0 THEN null
                 ELSE << calculate(Number(loanAmount), Number(interestRate),
                                   Number(loanTerm), mortgageType) >>

(* validateForm's return value is read off the mapping it stored *)
calculateMortgage ==
    /\ UNCHANGED <<loanAmount, interestRate, loanTerm, mortgageType>>
    /\ submitted' = TRUE
    /\ errors' = newErrors
    /\ result' = IF Cardinality(DOMAIN errors') # 0 THEN result
                 ELSE << calculate(Number(loanAmount), Number(interestRate),
                                   Number(loanTerm), mortgageType) >>

(* handleReset without setSubmitted(false) *)
handleReset_KeepsSubmitted ==
    /\ loanAmount' = <<>>
    /\ interestRate' = <<>>
    /\ loanTerm' = <<>>
    /\ mortgageType' = "repayment"
    /\ result' = null
    /\ errors' = noErrors
    /\ UNCHANGED submitted

handleReset ==
    /\ loanAmount' = <<>>
    /\ interestRate' = <<>>
    /\ loanTerm' = <<>>
    /\ mortgageType' = "repayment"
    /\ result' = null
    /\ errors' = noErrors
    /\ submitted' = FALSE

ChangeLoanAmount == \E v \in LoanAmountInputs : setLoanAmount(v)

ChangeInterestRate == \E v \in InterestRateInputs : setInterestRate(v)

ChangeLoanTerm == \E v \in LoanTermInputs : setLoanTerm(v)

SelectMortgageType == \E t \in MortgageTypes : setMortgageType(t)

Next ==
    \/ ChangeLoanAmount
    \/ ChangeInterestRate
    \/ ChangeLoanTerm
    \/ SelectMortgageType
    \/ calculateMortgage
    \/ handleReset

Spec == Init /\ [][Next]_vars

-----------------------------------------------------------------------------
(* The validator on its own: validateForm applied to every triple of raw   *)
(* strings of at most MaxLen characters over ValidateChars, and to the     *)
(* strings of the documented examples.                                     *)

MaxLen == 2

ValidateChars == {"1", "-"}

ExampleStrings ==
    { <<"6", ".", "5">>, <<"3", "0">>, <<"2", ".", "5">>,
      <<"1", "0", "0", "0", "0", "0">>, <<"0">>, <<"-", "0">>, <<".", "0">>,
      <<"0", ".", "5">>, <<" ">>, <<"+", "1">>, <<".">>, <<"1", ".">>,
      <<".", "1">>, <<"-", ".", "5">> }

RawStrings ==
    UNION {[1..len -> ValidateChars] : len \in 0..MaxLen} \cup ExampleStrings

InitValidate ==
    /\ loanAmount \in RawStrings
    /\ interestRate \in RawStrings
    /\ loanTerm \in RawStrings
    /\ mortgageType = "repayment"
    /\ result = null
    /\ errors = noErrors
    /\ submitted = FALSE

(* validateForm's only state change: setErrors(newErrors) *)
ValidateStep ==
    /\ errors' = newErrors
    /\ UNCHANGED <<loanAmount, interestRate, loanTerm, mortgageType, result, submitted>>

SpecValidate == InitValidate /\ [][ValidateStep]_vars

-----------------------------------------------------------------------------
(* The calculation on its own: Calculate pressed once on valid inputs.     *)
(* Principals are the multiples of 0.005 up to MaxPrincipalSteps * 0.005   *)
(* (whole cents and half cents) and 1, 1.005; terms are 1 .. MaxTermYears  *)
(* years; the documented examples are added as they stand.  The annuity    *)
(* formula is evaluated at the rates whose monthly growth factor 1 + r is  *)
(* 1.5 or 2, where the power is a short exact number.                      *)

MaxPrincipalSteps == 30

MaxTermYears == 3

RECURSIVE NatString(_)
NatString(i) ==
    IF i < 10 THEN <<Digits[i + 1]>>
    ELSE Append(NatString(i \div 10), Digits[(i % 10) + 1])

(* k thousandths written with three decimals, e.g. 5 -> "0.005" *)
MilliString(k) ==
    NatString(k \div 1000) \o <<".">> \o
    <<Digits[((k \div 100) % 10) + 1], Digits[((k \div 10) % 10) + 1],
      Digits[(k % 10) + 1]>>

CalcAmounts ==
    {MilliString(5 * k) : k \in 1..MaxPrincipalSteps}
       \cup { <<"1">>, <<"1", ".", "0", "0", "5">>,
              <<"1", "2", "3", "4", ".", "5", "6">>,
              <<"9", "9", "9", "9", "9", ".", "9", "9">> }

AnnuityRates == { <<"6", "0", "0">>, <<"1", "2", "0", "0">> }

CalcRates == { <<"0">>, <<"6", ".", "5">> } \cup AnnuityRates

CalcTerms == {NatString(t) : t \in 1..MaxTermYears}

CalcInput(amount, rate, term, type) ==
    /\ amount \in CalcAmounts
    /\ rate \in CalcRates
    /\ term \in CalcTerms
    /\ type \in MortgageTypes
    /\ (type = "repayment" /\ rate # <<"0">>) => rate \in AnnuityRates

(* <<loan amount, rate, term, type>> of the documented examples *)
ExampleInputs ==
    { << <<"1", "2", "0", "0", "0", "0">>, <<"0">>, <<"1", "0">>, "repayment" >>,
      << <<"2", "5", "0", "0", "0", "0">>, <<"6", ".", "5">>, <<"3", "0">>,
         "interest-only" >> }

InitCalc ==
    /\ \/ CalcInput(loanAmount, interestRate, loanTerm, mortgageType)
       \/ \E ex \in ExampleInputs :
             /\ loanAmount = ex[1]
             /\ interestRate = ex[2]
             /\ loanTerm = ex[3]
             /\ mortgageType = ex[4]
    /\ result = null
    /\ errors = noErrors
    /\ submitted = FALSE

SpecCalc == InitCalc /\ [][calculateMortgage]_vars

-----------------------------------------------------------------------------
(* Properties of the page (checked under Spec).                            *)

inputs == <<loanAmount, interestRate, loanTerm, mortgageType>>

(* the figures Calculate computes from the inputs now entered *)
CurrentCalculation ==
    calculate(Number(loanAmount), Number(interestRate), Number(loanTerm),
              mortgageType)

(* C1: a step that stores a new (non-null) result is a Calculate step on   *)
(* inputs for which validateForm returns an empty error mapping: the       *)
(* inputs stay as they are, the stored errors become that empty mapping,   *)
(* submitted becomes true and the result is the calculation of exactly     *)
(* those inputs.                                                           *)
C1_ResultOnlyFromValidInput ==
    [][(result' # result /\ result' # null) =>
          /\ validateForm
          /\ newErrors = noErrors
          /\ errors' = noErrors
          /\ submitted'
          /\ inputs' = inputs
          /\ result' = <<CurrentCalculation>>]_vars

C1_Witness ==
    /\ result # null
    /\ validateForm
    /\ result = <<CurrentCalculation>>
    /\ submitted

(* C3 as claimed: the result held by the page is always the calculation of *)
(* the inputs currently entered.                                           *)
C3_ResultTracksInputs ==
    result # null => (validateForm /\ result = <<CurrentCalculation>>)

(* C3 as amended: the result is recomputed by Calculate only.  A Calculate *)
(* step on valid inputs stores the calculation of the inputs entered at    *)
(* that step; a step that changes an input, other than Reset, leaves the   *)
(* result as it was.                                                       *)
C3_ResultRecomputedOnCalculate ==
    [][/\ (calculateMortgage /\ validateForm) => result' = <<CurrentCalculation>>
       /\ (inputs' # inputs /\ ~handleReset) => result' = result]_vars

(* a result computed from earlier inputs is still held after an edit *)
C3_Witness ==
    /\ result # null
    /\ validateForm
    /\ result # <<CurrentCalculation>>

(* C9: a Calculate step whose validation fails stores the non-empty error  *)
(* mapping, sets submitted, and leaves the result and the four inputs      *)
(* unchanged.                                                              *)
C9_FailedCalculateFrame ==
    [][(calculateMortgage /\ ~validateForm) =>
          /\ errors' = newErrors
          /\ DOMAIN errors' # {}
          /\ submitted'
          /\ result' = result
          /\ inputs' = inputs]_vars

(* an earlier result is held together with error messages *)
C9_Witness ==
    /\ result # null
    /\ DOMAIN errors # {}
    /\ errors = newErrors
    /\ submitted

(* C10: a non-null result or a non-empty error mapping implies submitted,  *)
(* and Reset leads to the initial state from any state.                    *)
C10_SubmittedAndReset ==
    /\ []((result # null \/ DOMAIN errors # {}) => submitted)
    /\ [][handleReset => Init']_vars

(* a submitted form holding a result, which Reset clears *)
C10_Witness ==
    /\ result # null
    /\ DOMAIN errors = {}
    /\ submitted
    /\ ENABLED (handleReset /\ result' # result)

-----------------------------------------------------------------------------
(* Properties of the validator (checked under SpecValidate).               *)

(* Each field's verdict as a function of that field's own string alone. *)
IsNumeric(s) == ~isNaN(Number(s))

AmountRejected(s) == s = <<>> \/ ~IsNumeric(s) \/ ~Lt(Num(0), Number(s))

RateRejected(s) == s = <<>> \/ ~IsNumeric(s) \/ Lt(Number(s), Num(0))

TermRejected(s) ==
    s = <<>> \/ ~IsNumeric(s) \/ ~Lt(Num(0), Number(s)) \/ ~IsInteger(Number(s))

RejectedFields ==
    {f \in Fields : CASE f = "loanAmount"   -> AmountRejected(loanAmount)
                      [] f = "interestRate" -> RateRejected(interestRate)
                      [] f = "loanTerm"     -> TermRejected(loanTerm)}

(* C2: the error mapping has a key for a field exactly when that field's   *)
(* own string is empty, non-numeric or out of range, whatever the other    *)
(* two strings are; an empty field gets the "... is required" message and  *)
(* no other string does; the input is reported valid iff the mapping is    *)
(* empty; and the mapping stored by validation is the one computed.        *)
C2_ValidatorIndependentFields ==
    LET e == newErrors
    IN  /\ DOMAIN e = RejectedFields
        /\ "loanAmount" \in DOMAIN e =>
              (e["loanAmount"] = "Loan amount is required" <=> loanAmount = <<>>)
        /\ "interestRate" \in DOMAIN e =>
              (e["interestRate"] = "Interest rate is required"
                  <=> interestRate = <<>>)
        /\ "loanTerm" \in DOMAIN e =>
              (e["loanTerm"] = "Loan term is required" <=> loanTerm = <<>>)
        /\ validateForm <=> DOMAIN e = {}
        /\ DOMAIN errors # {} => errors = e

(* validate("", "6.5", "30"): only the loan amount key, "... is required" *)
C2_Witness ==
    /\ loanAmount = <<>>
    /\ interestRate = <<"6", ".", "5">>
    /\ loanTerm = <<"3", "0">>
    /\ DOMAIN errors = {"loanAmount"}
    /\ errors["loanAmount"] = "Loan amount is required"

-----------------------------------------------------------------------------
(* Properties of the calculation (checked under SpecCalc, where the inputs *)
(* are those of the one Calculate step).  Amounts are compared as money:   *)
(* Cents(x) is x in whole cents, Thousandths(x) is x in thousandths.       *)

(* the integer held by a double that is a (small) integer *)
IntOf(x) == x.s * BToInt(BShl(x.m, x.e))

Cents(x) == IntOf(MathRound(Mul(x, Num(100))))

Thousandths(x) == IntOf(MathRound(Mul(x, Num(1000))))

Principal == Number(loanAmount)

(* numberOfPayments, as a double and as an integer *)
Payments == Mul(Number(loanTerm), Num(12))

PaymentCount == IntOf(Payments)

Calculated == result # null

ResultFinite ==
    /\ IsFinite(result[1].monthlyPayment)
    /\ IsFinite(result[1].totalPayment)
    /\ IsFinite(result[1].totalInterest)

ZeroRateRepayment ==
    Calculated /\ mortgageType = "repayment" /\ IsZero(Number(interestRate))

(* C4 as claimed: at rate 0 a Repayment calculation returns finite figures *)
(* with monthlyPayment = round2(P / n), totalPayment = round2(P) and       *)
(* totalInterest = 0.                                                      *)
C4_ZeroRateRepayment ==
    ZeroRateRepayment =>
       /\ ResultFinite
       /\ Eq(result[1].monthlyPayment, Round2(Div(Principal, Payments)))
       /\ Eq(result[1].totalPayment, Round2(Principal))
       /\ IsZero(result[1].totalInterest)

(* C4 as amended: totalPayment is round2((P / n) * n); it is within one    *)
(* cent of round2(P), and equal to P when P is an amount of whole cents.   *)
(* The rest as claimed.                                                    *)
C4_ZeroRateRepaymentToTheCent ==
    ZeroRateRepayment =>
       /\ ResultFinite
       /\ Eq(result[1].monthlyPayment, Round2(Div(Principal, Payments)))
       /\ Eq(result[1].totalPayment,
             Round2(Mul(Div(Principal, Payments), Payments)))
       /\ Abs(Cents(result[1].totalPayment) - Cents(Round2(Principal))) <= 1
       /\ Eq(Round2(Principal), Principal) =>
             Eq(result[1].totalPayment, Principal)
       /\ IsZero(result[1].totalInterest)

(* P = 120000 over 10 years at rate 0: 1000.00, 120000.00, 0.00 *)
C4_Witness ==
    /\ ZeroRateRepayment
    /\ loanAmount = <<"1", "2", "0", "0", "0", "0">>
    /\ loanTerm = <<"1", "0">>
    /\ Cents(result[1].monthlyPayment) = 100000
    /\ Cents(result[1].totalPayment) = 12000000
    /\ IsZero(result[1].totalInterest)

(* |totalPayment - monthlyPayment * n| is at most n + 1 half cents *)
TotalWithinRounding ==
    2 * Abs(Cents(result[1].totalPayment)
              - PaymentCount * Cents(result[1].monthlyPayment))
       <= PaymentCount + 1

(* (totalPayment - totalInterest) - principal, in thousandths *)
PrincipalGap ==
    10 * (Cents(result[1].totalPayment) - Cents(result[1].totalInterest))
       - Thousandths(Principal)

(* C5 as claimed: for Repayment, totalPayment = monthlyPayment * n within  *)
(* the rounding of the outputs, and totalInterest = totalPayment -         *)
(* principal.                                                              *)
C5_RepaymentTotals ==
    (Calculated /\ mortgageType = "repayment") =>
       /\ TotalWithinRounding
       /\ PrincipalGap = 0

(* C5 as amended: totalInterest = totalPayment - principal to within one   *)
(* cent.                                                                   *)
C5_RepaymentTotalsToTheCent ==
    (Calculated /\ mortgageType = "repayment") =>
       /\ TotalWithinRounding
       /\ Abs(PrincipalGap) <= 10

(* an annuity calculation on a half-cent principal, where the gap shows *)
C5_Witness ==
    /\ Calculated
    /\ mortgageType = "repayment"
    /\ interestRate = <<"6", "0", "0">>
    /\ PrincipalGap # 0
    /\ Cents(result[1].totalInterest) > 0

(* totalInterest - monthlyPayment * n on the returned figures, in cents *)
InterestGap ==
    Cents(result[1].totalInterest)
       - PaymentCount * Cents(result[1].monthlyPayment)

(* C6 as claimed: for InterestOnly, the returned totalInterest equals the  *)
(* returned monthlyPayment * n.                                            *)
C6_InterestOnlyInterest ==
    (Calculated /\ mortgageType = "interest-only") => InterestGap = 0

(* C6 as amended: totalInterest is the unrounded monthly payment * n,      *)
(* rounded on its own; it differs from the returned monthlyPayment * n by  *)
(* at most n + 1 half cents.                                               *)
C6_InterestOnlyInterestWithinRounding ==
    (Calculated /\ mortgageType = "interest-only") =>
       /\ Eq(result[1].totalInterest,
             Round2(Mul(Mul(Principal, monthlyRate(Number(interestRate))),
                        Payments)))
       /\ 2 * Abs(InterestGap) <= PaymentCount + 1

(* P = 250000 at 6.5 over 30 years: 1354.17 a month, interest 487500.00, *)
(* not 1354.17 * 360 = 487501.20                                         *)
C6_Witness ==
    /\ Calculated
    /\ mortgageType = "interest-only"
    /\ loanAmount = <<"2", "5", "0", "0", "0", "0">>
    /\ Cents(result[1].monthlyPayment) = 135417
    /\ Cents(result[1].totalInterest) = 48750000
    /\ InterestGap = -120

(* C7 as claimed: for InterestOnly, totalPayment = principal +             *)
(* totalInterest, hence totalPayment >= principal.                         *)
C7_InterestOnlyTotal ==
    (Calculated /\ mortgageType = "interest-only") =>
       /\ PrincipalGap = 0
       /\ Le(Principal, result[1].totalPayment)

(* C7 as amended: totalPayment = principal + totalInterest to within one   *)
(* cent, and totalPayment >= principal rounded to cents.                   *)
C7_InterestOnlyTotalToTheCent ==
    (Calculated /\ mortgageType = "interest-only") =>
       /\ Abs(PrincipalGap) <= 10
       /\ Le(Round2(Principal), result[1].totalPayment)

(* a principal of 1.005 with interest: the total is not principal + interest *)
C7_Witness ==
    /\ Calculated
    /\ mortgageType = "interest-only"
    /\ loanAmount = <<"1", ".", "0", "0", "5">>
    /\ Cents(result[1].totalInterest) > 0
    /\ PrincipalGap # 0

(* the monthly payment Calculate returns for loan amount a, other inputs   *)
(* as entered                                                              *)
MonthlyPaymentFor(a) ==
    calculate(Number(a), Number(interestRate), Number(loanTerm),
              mortgageType).monthlyPayment

(* C8 as claimed: with rate, term and type fixed, a larger principal has a *)
(* strictly larger monthlyPayment.                                         *)
C8_StrictlyIncreasing ==
    Calculated =>
       \A a \in CalcAmounts :
          Lt(Principal, Number(a)) =>
             Lt(result[1].monthlyPayment, MonthlyPaymentFor(a))

(* C8 as amended: a larger principal never has a smaller monthlyPayment.   *)
C8_NonDecreasing ==
    Calculated =>
       \A a \in CalcAmounts :
          Lt(Principal, Number(a)) =>
             ~Lt(MonthlyPaymentFor(a), result[1].monthlyPayment)

(* two InterestOnly principals at a positive rate with the same payment *)
C8_Witness ==
    /\ Calculated
    /\ mortgageType = "interest-only"
    /\ ~IsZero(Number(interestRate))
    /\ \E a \in CalcAmounts :
          /\ Lt(Principal, Number(a))
          /\ Eq(result[1].monthlyPayment, MonthlyPaymentFor(a))

=============================================================================
